---- MODULE Spec2Model ----
(***************************************************************************)
(* Model of the spark-ser7seg driver: the SPI adapter (src/src/spi.rs),    *)
(* the I2C adapter (src/src/i2c.rs) and the command layer, the default     *)
(* methods of trait SevenSegInterface (src/src/lib.rs).                    *)
(*                                                                         *)
(* The embedded-hal bus and pin handles are the environment.  Each call    *)
(* into them is recorded, in order, with its outcome: outcome 0 is Ok(()), *)
(* outcome e > 0 is Err(e).                                                *)
(***************************************************************************)
EXTENDS Integers, Sequences, FiniteSets, TLC

VARIABLES
    spiPc,      \* position inside SevSegSpim::send: "idle","low","write","high"
    csn,        \* electrical level of the chip-select line: "high" or "low"
    spiData,    \* the slice handed to the send in progress (or last send)
    spiRet,     \* `ret`, the captured result of spim.write
    spiResult,  \* value returned by the last completed send
    spiTrace,   \* pin and bus calls made by the current/last send, in order
    addr,       \* SevSegI2c.addr
    ctorAddr,   \* the Option<u8> that SevSegI2c::new was given
    i2cHist,    \* operations issued on the I2C adapter, in order
    i2cLog,     \* addressed writes received by the I2C bus, in order
    i2cResult,  \* value returned by the last I2C send
    input,      \* argument drawn for a single command-layer call
    calls,      \* command-layer calls made so far, with their results
    stream,     \* transfers handed to the transport's send, in order
    busErrs     \* error values the transport under the command layer may return

vars == <<spiPc, csn, spiData, spiRet, spiResult, spiTrace,
          addr, ctorAddr, i2cHist, i2cLog, i2cResult,
          input, calls, stream, busErrs>>

spiVars == <<spiPc, csn, spiData, spiRet, spiResult, spiTrace>>
i2cVars == <<addr, ctorAddr, i2cHist, i2cLog, i2cResult>>
cmdVars == <<input, calls, stream, busErrs>>

(***************************************************************************)
(* Bounds of the model.                                                    *)
(***************************************************************************)
MaxSpiLen  == 2     \* longest slice handed directly to the SPI send
MaxSpiByte == 1     \* slices handed to the SPI send hold bytes 0..MaxSpiByte
MaxGpioErr == 2     \* the pin fails with error values 1..MaxGpioErr
MaxSpimErr == 2     \* the SPI bus fails with error values 1..MaxSpimErr
MaxI2cOps  == 3     \* operations issued on one I2C adapter
MaxI2cLen  == 1     \* longest slice handed directly to the I2C send
MaxI2cErr  == 1     \* the I2C bus fails with error values 1..MaxI2cErr
MaxAddrOff == 0     \* addresses 0x50 and DefaultAddr..DefaultAddr+MaxAddrOff are tried
MaxCalls   == 3     \* command-layer calls made on one adapter
MaxCol     == 4     \* set_cursor is tried with 0..MaxCol and 255
MaxBright  == 0     \* set_brightness is tried with 0..MaxBright, 100, 101, 255
MaxDigitOver == 1   \* digits tried: 0, 10, 15..15+MaxDigitOver, 255
MaxFlagBits  == 2   \* flags tried: unions of the lowest MaxFlagBits members, and all six
MaxSliceLen  == 5   \* longest slice handed to write_digits
MaxBusErr    == 1   \* a failing transport answers with error values 1..MaxBusErr
MaxAnyCalls  == 2   \* calls made on one adapter whose transport may fail
MaxNumOver   == 1   \* set_num is also tried with 10000..9999+MaxNumOver
MaxSpiCalls  == 2   \* command-layer calls made on one SPI adapter

U8Max  == 255
U16Max == 65535

\* mod command
CLEAR_DISPLAY  == 118   \* 0x76
DECIMAL_CTL    == 119   \* 0x77
CURSOR_CTL     == 121   \* 0x79
BRIGHTNESS_CTL == 122   \* 0x7A

\* addr.unwrap_or(0x71)
DefaultAddr == 113

(***************************************************************************)
(* Result<(), Error<I>> of lib.rs, with I the adapter's InterfaceError.    *)
(***************************************************************************)
OkUnit           == [tag |-> "Ok",               sub |-> "",  e |-> 0]
CursorOutOfRange == [tag |-> "CursorOutOfRange", sub |-> "",  e |-> 0]
DigitOutOfRange  == [tag |-> "DigitOutOfRange",  sub |-> "",  e |-> 0]
Interface(s, x)  == [tag |-> "Interface",        sub |-> s,   e |-> x]
NoResult         == [tag |-> "None",             sub |-> "",  e |-> 0]

Spim(x) == Interface("Spim", x)
Gpio(x) == Interface("Gpio", x)

\* All sequences over S of length 0..n.
RECURSIVE SeqsUpTo(_, _)
SeqsUpTo(S, n) ==
    IF n = 0 THEN {<<>>}
    ELSE LET shorter == SeqsUpTo(S, n - 1)
         IN  shorter \cup {Append(s, b) : s \in {t \in shorter : Len(t) = n - 1}, b \in S}

(***************************************************************************)
(* SPI adapter, src/src/spi.rs                                             *)
(***************************************************************************)
GpioOutcomes == 0..MaxGpioErr
SpimOutcomes == 0..MaxSpimErr
SpiSlices    == SeqsUpTo(0..MaxSpiByte, MaxSpiLen)

PinCall(a, o) == [act |-> a, data |-> <<>>, out |-> o]

\* (variant: only the first byte of the slice reaches the bus)
BusWriteFirstByte(d, o) ==
    [act |-> "write", data |-> IF d = <<>> THEN d ELSE <<d[1]>>, out |-> o]

\* self.spim.write(&data), as the bus sees it
BusWrite(d, o) == [act |-> "write", data |-> d, out |-> o]

\* OutputPin::set_low / set_high.  A call that returns Ok has driven the
\* line; a call that returns Err may or may not have moved it.
PinAfter(level, target, o) ==
    IF o = 0 THEN {target} ELSE {level, target}

\* (variant: the bus error is wrapped in the wrong SpimError arm)
WriteResultAsGpio(o) == IF o = 0 THEN OkUnit ELSE Gpio(o)

\* .map_err(|e| Error::Interface(SpimError::Spim(e))).map(drop)
WriteResult(o) == IF o = 0 THEN OkUnit ELSE Spim(o)

\* (variant: a failed write wins over a failed deassertion)
SendTailPrefersRet(ret, o) ==
    IF ret # OkUnit THEN ret ELSE IF o = 0 THEN ret ELSE Gpio(o)

\* the tail of send: set_high()...?; ret
SendTail(ret, o) == IF o = 0 THEN ret ELSE Gpio(o)

\* SevSegSpim::new(spim, csn): stores the handles, drives nothing.
SpiNew ==
    /\ spiPc = "idle"
    /\ csn \in {"high", "low"}
    /\ spiData = <<>>
    /\ spiRet = NoResult
    /\ spiResult = NoResult
    /\ spiTrace = <<>>

\* entry of send(&mut self, data)
SpiSendCall ==
    /\ spiPc = "idle"
    /\ \E d \in SpiSlices : spiData' = d
    /\ spiPc' = "low"
    /\ spiTrace' = <<>>
    /\ spiRet' = NoResult
    /\ spiResult' = NoResult
    /\ UNCHANGED <<csn, i2cVars, cmdVars>>

\* (variant: the result of set_low is dropped instead of propagated with ?)
SpiSetLowUnchecked ==
    /\ spiPc = "low"
    /\ \E o \in GpioOutcomes :
         /\ spiTrace' = Append(spiTrace, PinCall("low", o))
         /\ csn' \in PinAfter(csn, "low", o)
    /\ spiPc' = "write"
    /\ UNCHANGED <<spiData, spiRet, spiResult, i2cVars, cmdVars>>

\* self.csn.set_low().map_err(|e| Error::Interface(SpimError::Gpio(e)))?;
SpiSetLow ==
    /\ spiPc = "low"
    /\ \E o \in GpioOutcomes :
         /\ spiTrace' = Append(spiTrace, PinCall("low", o))
         /\ csn' \in PinAfter(csn, "low", o)
         /\ IF o = 0
            THEN spiPc' = "write" /\ spiResult' = spiResult
            ELSE spiPc' = "idle"  /\ spiResult' = Gpio(o)
    /\ UNCHANGED <<spiData, spiRet, i2cVars, cmdVars>>

\* (variant: the write is propagated with ?, returning before set_high)
SpiWriteEarlyReturn ==
    /\ spiPc = "write"
    /\ \E o \in SpimOutcomes :
         /\ spiTrace' = Append(spiTrace, BusWrite(spiData, o))
         /\ spiRet' = WriteResult(o)
         /\ IF o = 0
            THEN spiPc' = "high" /\ spiResult' = spiResult
            ELSE spiPc' = "idle" /\ spiResult' = WriteResult(o)
    /\ UNCHANGED <<csn, spiData, i2cVars, cmdVars>>

\* let ret = self.spim.write(&data).map_err(..).map(drop);
SpiWrite ==
    /\ spiPc = "write"
    /\ \E o \in SpimOutcomes :
         /\ spiTrace' = Append(spiTrace, BusWrite(spiData, o))
         /\ spiRet' = WriteResult(o)
    /\ spiPc' = "high"
    /\ UNCHANGED <<csn, spiData, spiResult, i2cVars, cmdVars>>

\* (variant: chip-select is only released after a write that succeeded)
SpiSetHighOnSuccessOnly ==
    /\ spiPc = "high"
    /\ IF spiRet = OkUnit
       THEN \E o \in GpioOutcomes :
              /\ spiTrace' = Append(spiTrace, PinCall("high", o))
              /\ csn' \in PinAfter(csn, "high", o)
              /\ spiResult' = SendTail(spiRet, o)
       ELSE /\ spiResult' = spiRet
            /\ UNCHANGED <<spiTrace, csn>>
    /\ spiPc' = "idle"
    /\ UNCHANGED <<spiData, spiRet, i2cVars, cmdVars>>

\* self.csn.set_high().map_err(|e| Error::Interface(SpimError::Gpio(e)))?; ret
SpiSetHigh ==
    /\ spiPc = "high"
    /\ \E o \in GpioOutcomes :
         /\ spiTrace' = Append(spiTrace, PinCall("high", o))
         /\ csn' \in PinAfter(csn, "high", o)
         /\ spiResult' = SendTail(spiRet, o)
    /\ spiPc' = "idle"
    /\ UNCHANGED <<spiData, spiRet, i2cVars, cmdVars>>

I2cIdle ==
    /\ addr = 113
    /\ ctorAddr = <<>>
    /\ i2cHist = <<>>
    /\ i2cLog = <<>>
    /\ i2cResult = NoResult

CmdIdle ==
    /\ input = <<>>
    /\ calls = <<>>
    /\ stream = <<>>
    /\ busErrs = {}

SpiInit == SpiNew /\ I2cIdle /\ CmdIdle
SpiNext == SpiSendCall \/ SpiSetLow \/ SpiWrite \/ SpiSetHigh
SpecSpi == SpiInit /\ [][SpiNext]_vars

(***************************************************************************)
(* I2C adapter, src/src/i2c.rs                                             *)
(***************************************************************************)
I2c(x) == Interface("I2c", x)

I2cOutcomes == 0..MaxI2cErr
I2cSlices   == SeqsUpTo({0, CLEAR_DISPLAY}, MaxI2cLen)
\* 80 = 0x50, an address other than the default
I2cAddrs    == {80} \cup (DefaultAddr..(DefaultAddr + MaxAddrOff))
\* Option<u8>: None is <<>>, Some(a) is <<a>>
OptAddrs    == {<<>>} \cup {<<a>> : a \in I2cAddrs}

\* Option::unwrap_or
UnwrapOr(opt, d) == IF opt = <<>> THEN d ELSE opt[1]

\* (variant: the write goes to the default address, not the stored one)
I2cWriteToDefault(a, d, o) == [addr |-> DefaultAddr, data |-> d, out |-> o]

\* self.i2c.write(self.addr, &data), as the bus sees it
I2cWrite(a, d, o) == [addr |-> a, data |-> d, out |-> o]

\* SevSegI2c::new(i2c, addr)
I2cNew ==
    /\ ctorAddr \in OptAddrs
    /\ addr = UnwrapOr(ctorAddr, DefaultAddr)
    /\ i2cHist = <<>>
    /\ i2cLog = <<>>
    /\ i2cResult = NoResult

\* (variant: the new address is also sent to the display, as command 0x80)
I2cSetAddressReconfigures ==
    /\ Len(i2cHist) < MaxI2cOps
    /\ \E a \in I2cAddrs, o \in I2cOutcomes :
         /\ i2cLog' = Append(i2cLog, I2cWrite(addr, <<128, a>>, o))
         /\ i2cResult' = IF o = 0 THEN OkUnit ELSE I2c(o)
         /\ addr' = a
         /\ i2cHist' = Append(i2cHist, [op |-> "set_address", arg |-> <<a>>])
    /\ UNCHANGED <<ctorAddr, spiVars, cmdVars>>

\* SevSegI2c::set_address(addr)
I2cSetAddress ==
    /\ Len(i2cHist) < MaxI2cOps
    /\ \E a \in I2cAddrs :
         /\ addr' = a
         /\ i2cHist' = Append(i2cHist, [op |-> "set_address", arg |-> <<a>>])
    /\ UNCHANGED <<ctorAddr, i2cLog, i2cResult, spiVars, cmdVars>>

\* <SevSegI2c as SevenSegInterface>::send(data)
I2cSend ==
    /\ Len(i2cHist) < MaxI2cOps
    /\ \E d \in I2cSlices, o \in I2cOutcomes :
         /\ i2cLog' = Append(i2cLog, I2cWrite(addr, d, o))
         /\ i2cResult' = IF o = 0 THEN OkUnit ELSE I2c(o)
         /\ i2cHist' = Append(i2cHist, [op |-> "send", arg |-> d])
    /\ UNCHANGED <<addr, ctorAddr, spiVars, cmdVars>>

SpiIdle ==
    /\ spiPc = "idle"
    /\ csn = "high"
    /\ spiData = <<>>
    /\ spiRet = NoResult
    /\ spiResult = NoResult
    /\ spiTrace = <<>>

I2cInit == I2cNew /\ SpiIdle /\ CmdIdle
I2cNext == I2cSetAddress \/ I2cSend
SpecI2c == I2cInit /\ [][I2cNext]_vars

(***************************************************************************)
(* Command layer, src/src/lib.rs: the provided methods of                  *)
(* trait SevenSegInterface, written against the required method send.      *)
(***************************************************************************)
\* bitflags! PunctuationFlags: u8 -- a value is the struct { bits }
DOT_BETWEEN_1_AND_2        == 1
DOT_BETWEEN_2_AND_3        == 2
DOT_BETWEEN_3_AND_4        == 4
DOT_RIGHT_OF_4             == 8
DOTS_COLON                 == 16
APOSTROPHE_BETWEEN_3_AND_4 == 32
FlagMembers == {DOT_BETWEEN_1_AND_2, DOT_BETWEEN_2_AND_3, DOT_BETWEEN_3_AND_4,
                DOT_RIGHT_OF_4, DOTS_COLON, APOSTROPHE_BETWEEN_3_AND_4}

\* bitwise or of two u8
RECURSIVE BitOr(_, _)
BitOr(a, b) ==
    IF a = 0 THEN b
    ELSE IF b = 0 THEN a
    ELSE (IF a % 2 = 1 \/ b % 2 = 1 THEN 1 ELSE 0) + 2 * BitOr(a \div 2, b \div 2)

\* PunctuationFlags::NONE | m1 | m2 | ... for the members in M
RECURSIVE FlagUnion(_)
FlagUnion(M) ==
    IF M = {} THEN [bits |-> 0]
    ELSE LET m == CHOOSE x \in M : TRUE
         IN  [bits |-> BitOr(m, FlagUnion(M \ {m}).bits)]

\* PunctuationFlags::bits()
Bits(f) == f.bits

\* what a call of the required method send(data) does: the transport
\* receives data as one transfer and answers with outcome o
Transfer(d, o) == [data |-> d, out |-> o]
SendVia(d, o) ==
    [res  |-> IF o = 0 THEN OkUnit ELSE Interface("Bus", o),
     sent |-> <<Transfer(d, o)>>]

\* return Err(err) before any send
Rejected(err) == [res |-> err, sent |-> <<>>]

\* (variant: the range check lets column 4 through)
SetCursorOffByOne(col, o) ==
    IF col > 4 THEN Rejected(CursorOutOfRange)
    ELSE SendVia(<<CURSOR_CTL, col>>, o)

\* fn set_cursor(&mut self, col: u8)
SetCursor(col, o) ==
    IF col >= 4 THEN Rejected(CursorOutOfRange)
    ELSE SendVia(<<CURSOR_CTL, col>>, o)

\* (variant: a failed send is tried once more)
SetBrightnessRetries(bright, o) ==
    IF o = 0 THEN SendVia(<<BRIGHTNESS_CTL, bright>>, o)
    ELSE [res  |-> Interface("Bus", o),
          sent |-> <<Transfer(<<BRIGHTNESS_CTL, bright>>, o),
                     Transfer(<<BRIGHTNESS_CTL, bright>>, o)>>]

\* fn set_brightness(&mut self, bright: u8)
SetBrightness(bright, o) == SendVia(<<BRIGHTNESS_CTL, bright>>, o)

\* fn clear(&mut self)
Clear(o) == SendVia(<<CLEAR_DISPLAY>>, o)

\* fn write_digit(&mut self, digit: u8)
WriteDigit(digit, o) ==
    IF digit > 15 THEN Rejected(DigitOutOfRange)
    ELSE SendVia(<<digit>>, o)

\* fn write_punctuation(&mut self, punct_flags: PunctuationFlags)
WritePunctuation(punct_flags, o) == SendVia(<<DECIMAL_CTL, Bits(punct_flags)>>, o)

\* (variant: the digits are checked before the length)
WriteDigitsDigitFirst(digits, o) ==
    IF \E i \in 1..Len(digits) : digits[i] > 15 THEN Rejected(DigitOutOfRange)
    ELSE IF Len(digits) > 4 THEN Rejected(CursorOutOfRange)
    ELSE SendVia(digits, o)

\* fn write_digits(&mut self, digits: &[u8])
WriteDigits(digits, o) ==
    IF Len(digits) > 4 THEN Rejected(CursorOutOfRange)
    ELSE IF \E i \in 1..Len(digits) : digits[i] > 15 THEN Rejected(DigitOutOfRange)
    ELSE SendVia(digits, o)

\* (variant: the hundreds digit is taken without first reducing mod 1000)
NumDataNoMod(num) ==
    << (num \div 1000) % 256,
       (num \div 100) % 256,
       ((num % 100) \div 10) % 256,
       (num % 10) % 256 >>

\* let data: [u8; 4] = [...]; each `as u8` keeps the low 8 bits
NumData(num) ==
    << (num \div 1000) % 256,
       ((num % 1000) \div 100) % 256,
       ((num % 100) \div 10) % 256,
       (num % 10) % 256 >>

\* (variant: the result of set_cursor(0) is dropped instead of propagated)
SetNumIgnoresCursorErr(num, o1, o2) ==
    IF num > 9999 THEN Rejected(DigitOutOfRange)
    ELSE LET c == SetCursor(0, o1)
             d == SendVia(NumData(num), o2)
         IN  [res |-> d.res, sent |-> c.sent \o d.sent]

\* (variant: the digits are sent without first homing the cursor)
SetNumNoCursor(num, o1, o2) ==
    IF num > 9999 THEN Rejected(DigitOutOfRange)
    ELSE SendVia(NumData(num), o2)

\* fn set_num(&mut self, num: u16); o1, o2 answer the two sends
SetNum(num, o1, o2) ==
    IF num > 9999 THEN Rejected(DigitOutOfRange)
    ELSE LET c == SetCursor(0, o1)
         IN  IF c.res # OkUnit THEN c
             ELSE LET d == SendVia(NumData(num), o2)
                  IN  [res |-> d.res, sent |-> c.sent \o d.sent]

\* outcomes the transport under the command layer can answer with
BusOutcomes == {0} \cup busErrs

\* one call op(arg) with outcome r is made and returns
Called(op, arg, r) ==
    /\ calls' = Append(calls, [op |-> op, arg |-> arg, res |-> r.res,
                                at |-> Len(stream)])
    /\ stream' = stream \o r.sent
    /\ UNCHANGED <<input, busErrs, spiVars, i2cVars>>

ColInputs    == (0..MaxCol) \cup {U8Max}
BrightInputs == (0..MaxBright) \cup {100, 101, U8Max}
DigitInputs  == {0, 10} \cup (15..(15 + MaxDigitOver)) \cup {U8Max}
LowMembers   == {m \in FlagMembers : \E k \in 1..MaxFlagBits : m = 2^(k - 1)}
FlagInputs   == {FlagUnion(M) : M \in SUBSET LowMembers} \cup {FlagUnion(FlagMembers)}

CallClear ==
    /\ Len(calls) < MaxCalls
    /\ \E o \in BusOutcomes : Called("clear", 0, Clear(o))

CallSetCursor ==
    /\ Len(calls) < MaxCalls
    /\ \E col \in ColInputs, o \in BusOutcomes :
         Called("set_cursor", col, SetCursor(col, o))

CallSetBrightness ==
    /\ Len(calls) < MaxCalls
    /\ \E b \in BrightInputs, o \in BusOutcomes :
         Called("set_brightness", b, SetBrightness(b, o))

CallWriteDigit ==
    /\ Len(calls) < MaxCalls
    /\ \E d \in DigitInputs, o \in BusOutcomes :
         Called("write_digit", d, WriteDigit(d, o))

CallWritePunctuation ==
    /\ Len(calls) < MaxCalls
    /\ \E f \in FlagInputs, o \in BusOutcomes :
         Called("write_punctuation", f, WritePunctuation(f, o))

\* a single write_digits(input) on a fresh adapter
CallWriteDigits ==
    /\ calls = <<>>
    /\ \E o \in BusOutcomes : Called("write_digits", input, WriteDigits(input, o))

\* a single set_num(input) on a fresh adapter
CallSetNum ==
    /\ calls = <<>>
    /\ \E o1 \in BusOutcomes, o2 \in BusOutcomes :
         Called("set_num", input, SetNum(input, o1, o2))

\* an adapter whose transport never fails, before the first call
CmdInit == SpiIdle /\ I2cIdle /\ CmdIdle
CmdNext == CallClear \/ CallSetCursor \/ CallSetBrightness
              \/ CallWriteDigit \/ CallWritePunctuation
SpecCmd == CmdInit /\ [][CmdNext]_vars

\* every u16 as the argument of one set_num
NumInit ==
    /\ SpiIdle /\ I2cIdle
    /\ input \in 0..U16Max
    /\ calls = <<>> /\ stream = <<>> /\ busErrs = {}
SpecNum == NumInit /\ [][CallSetNum]_vars

\* slices as the argument of one write_digits
DigitSlices == SeqsUpTo({0} \cup (15..(15 + MaxDigitOver)), MaxSliceLen)
DigitsInit ==
    /\ SpiIdle /\ I2cIdle
    /\ input \in DigitSlices
    /\ calls = <<>> /\ stream = <<>> /\ busErrs = {}
SpecDigits == DigitsInit /\ [][CallWriteDigits]_vars

\* all seven operations, in any order, on a transport that may fail
AnySlices == SeqsUpTo({0}, MaxSliceLen) \cup {<<16>>, <<0, 16>>}
AnyNums   == {0, 42, 9999} \cup (10000..(9999 + MaxNumOver)) \cup {U16Max}

CallWriteDigitsAny ==
    /\ Len(calls) < MaxCalls
    /\ \E ds \in AnySlices, o \in BusOutcomes :
         Called("write_digits", ds, WriteDigits(ds, o))

CallSetNumAny ==
    /\ Len(calls) < MaxCalls
    /\ \E n \in AnyNums, o1 \in BusOutcomes, o2 \in BusOutcomes :
         Called("set_num", n, SetNum(n, o1, o2))

AnyInit ==
    /\ SpiIdle /\ I2cIdle
    /\ input = <<>> /\ calls = <<>> /\ stream = <<>>
    /\ busErrs = 1..MaxBusErr
AnyNext ==
    /\ Len(calls) < MaxAnyCalls
    /\ \/ CallClear \/ CallSetCursor \/ CallSetBrightness
       \/ CallWriteDigit \/ CallWritePunctuation
       \/ CallWriteDigitsAny \/ CallSetNumAny
SpecAny == AnyInit /\ [][AnyNext]_vars

\* bitwise and of two u8
RECURSIVE BitAnd(_, _)
BitAnd(a, b) ==
    IF a = 0 \/ b = 0 THEN 0
    ELSE (IF a % 2 = 1 /\ b % 2 = 1 THEN 1 ELSE 0) + 2 * BitAnd(a \div 2, b \div 2)

\* PunctuationFlags::empty(), ::all(), and the operators |, & the macro defines
FlagEmpty     == [bits |-> 0]
FlagAll       == FlagUnion(FlagMembers)
FlagOr(f, g)  == [bits |-> BitOr(f.bits, g.bits)]
FlagAnd(f, g) == [bits |-> BitAnd(f.bits, g.bits)]

\* (variant: the complement keeps the two undefined bits)
FlagNotRaw(f) == [bits |-> U8Max - f.bits]

\* operator !: from_bits_truncate(!self.bits), the complement within the
\* bits some member defines
FlagNot(f) == [bits |-> BitAnd(U8Max - f.bits, FlagAll.bits)]

\* the values the four constructions are applied with: a member or the
\* complement of one
FlagOperands == {[bits |-> m] : m \in FlagMembers}
                   \cup {FlagNot([bits |-> m]) : m \in FlagMembers}

\* a PunctuationFlags value is built in `input`, then written once
FlagsUnion ==
    /\ calls = <<>>
    /\ \E g \in FlagOperands : input' = FlagOr(input, g)
    /\ UNCHANGED <<calls, stream, busErrs, spiVars, i2cVars>>

FlagsIntersection ==
    /\ calls = <<>>
    /\ \E g \in FlagOperands : input' = FlagAnd(input, g)
    /\ UNCHANGED <<calls, stream, busErrs, spiVars, i2cVars>>

FlagsComplement ==
    /\ calls = <<>>
    /\ input' = FlagNot(input)
    /\ UNCHANGED <<calls, stream, busErrs, spiVars, i2cVars>>

CallWritePunctuationBuilt ==
    /\ calls = <<>>
    /\ \E o \in BusOutcomes :
         Called("write_punctuation", input, WritePunctuation(input, o))

FlagsInit ==
    /\ SpiIdle /\ I2cIdle
    /\ input = FlagEmpty
    /\ calls = <<>> /\ stream = <<>> /\ busErrs = {}
FlagsNext == FlagsUnion \/ FlagsIntersection \/ FlagsComplement
                \/ CallWritePunctuationBuilt
SpecFlags == FlagsInit /\ [][FlagsNext]_vars

\* every u16 as the argument of one set_num, on a transport that may fail
NumFailInit ==
    /\ SpiIdle /\ I2cIdle
    /\ input \in 0..U16Max
    /\ calls = <<>> /\ stream = <<>> /\ busErrs = 1..MaxBusErr
SpecNumFail == NumFailInit /\ [][CallSetNum]_vars

(***************************************************************************)
(* The command layer on the SPI adapter: Self = SevSegSpim, so every       *)
(* self.send(..) of lib.rs is the send of spi.rs.                          *)
(***************************************************************************)
\* (variant: set_low is skipped when the line is already low)
SpiSendRunSkipsLow(line, d, t) ==
    IF line = "low"
    THEN [res   |-> SendTail(WriteResult(t[2]), t[3]),
          trace |-> <<BusWrite(d, t[2]), PinCall("high", t[3])>>,
          lines |-> PinAfter("low", "high", t[3])]
    ELSE IF t[1] # 0
    THEN [res   |-> Gpio(t[1]),
          trace |-> <<PinCall("low", t[1])>>,
          lines |-> PinAfter(line, "low", t[1])]
    ELSE [res   |-> SendTail(WriteResult(t[2]), t[3]),
          trace |-> <<PinCall("low", 0), BusWrite(d, t[2]), PinCall("high", t[3])>>,
          lines |-> PinAfter("low", "high", t[3])]

\* One whole SevSegSpim::send(d) with the line at `line`, where set_low,
\* write and set_high answer t[1], t[2], t[3]: its result, the calls it
\* makes, and the levels the line can be left at.
SpiSendRun(line, d, t) ==
    IF t[1] # 0
    THEN [res   |-> Gpio(t[1]),
          trace |-> <<PinCall("low", t[1])>>,
          lines |-> PinAfter(line, "low", t[1])]
    ELSE [res   |-> SendTail(WriteResult(t[2]), t[3]),
          trace |-> <<PinCall("low", 0), BusWrite(d, t[2]), PinCall("high", t[3])>>,
          lines |-> PinAfter("low", "high", t[3])]

\* what the command layer sees of a send answered by t: 0 for Ok(())
SendFailed(t) == IF t[1] = 0 /\ t[2] = 0 /\ t[3] = 0 THEN 0 ELSE 1

SpiAnswers == BusOutcomes \X BusOutcomes \X BusOutcomes

\* One command-layer call op(arg) on the SPI adapter.  r is the method
\* evaluated with its sends answered SendFailed(t1), SendFailed(t2); each
\* send it makes runs on the adapter, and the error of a failed send is
\* what the method returns.
CalledOverSpi(op, arg, r, t1, t2) ==
    LET n  == Len(r.sent)
        s1 == SpiSendRun(csn, r.sent[1].data, t1)
    IN  /\ stream' = stream \o r.sent
        /\ spiPc' = "idle"
        /\ UNCHANGED <<input, busErrs, spiRet, i2cVars>>
        /\ IF n = 0
           THEN /\ calls' = Append(calls, [op |-> op, arg |-> arg, res |-> r.res,
                                           at |-> Len(stream)])
                /\ spiTrace' = <<>>
                /\ UNCHANGED <<csn, spiData, spiResult>>
           ELSE IF n = 1
           THEN /\ calls' = Append(calls, [op |-> op, arg |-> arg, res |-> s1.res,
                                           at |-> Len(stream)])
                /\ spiTrace' = s1.trace
                /\ csn' \in s1.lines
                /\ spiData' = r.sent[1].data
                /\ spiResult' = s1.res
           ELSE \E mid \in s1.lines :
                  LET s2 == SpiSendRun(mid, r.sent[2].data, t2)
                  IN  /\ calls' = Append(calls, [op |-> op, arg |-> arg, res |-> s2.res,
                                                 at |-> Len(stream)])
                      /\ spiTrace' = s1.trace \o s2.trace
                      /\ csn' \in s2.lines
                      /\ spiData' = r.sent[2].data
                      /\ spiResult' = s2.res

NoAnswer == <<0, 0, 0>>

SpiCallClear ==
    /\ Len(calls) < MaxSpiCalls
    /\ \E t \in SpiAnswers :
         CalledOverSpi("clear", 0, Clear(SendFailed(t)), t, NoAnswer)

SpiCallSetCursor ==
    /\ Len(calls) < MaxSpiCalls
    /\ \E col \in {2, 4}, t \in SpiAnswers :
         CalledOverSpi("set_cursor", col, SetCursor(col, SendFailed(t)), t, NoAnswer)

SpiCallSetBrightness ==
    /\ Len(calls) < MaxSpiCalls
    /\ \E t \in SpiAnswers :
         CalledOverSpi("set_brightness", U8Max, SetBrightness(U8Max, SendFailed(t)),
                       t, NoAnswer)

SpiCallWriteDigit ==
    /\ Len(calls) < MaxSpiCalls
    /\ \E d \in {10, 16}, t \in SpiAnswers :
         CalledOverSpi("write_digit", d, WriteDigit(d, SendFailed(t)), t, NoAnswer)

SpiCallWritePunctuation ==
    /\ Len(calls) < MaxSpiCalls
    /\ \E f \in {FlagUnion({DOTS_COLON, DOT_BETWEEN_1_AND_2})}, t \in SpiAnswers :
         CalledOverSpi("write_punctuation", f, WritePunctuation(f, SendFailed(t)),
                       t, NoAnswer)

SpiCallWriteDigits ==
    /\ Len(calls) < MaxSpiCalls
    /\ \E ds \in {<<>>, <<1, 2>>, <<16>>}, t \in SpiAnswers :
         CalledOverSpi("write_digits", ds, WriteDigits(ds, SendFailed(t)), t, NoAnswer)

SpiCallSetNum ==
    /\ Len(calls) < MaxSpiCalls
    /\ \E n \in {42, 10000}, t1 \in SpiAnswers, t2 \in SpiAnswers :
         CalledOverSpi("set_num", n, SetNum(n, SendFailed(t1), SendFailed(t2)), t1, t2)

\* a fresh SPI adapter whose pin and bus may fail with error 1
SpiCmdInit ==
    /\ SpiNew /\ I2cIdle
    /\ input = <<>> /\ calls = <<>> /\ stream = <<>>
    /\ busErrs = {1}
SpiCmdNext == SpiCallClear \/ SpiCallSetCursor \/ SpiCallSetBrightness
                 \/ SpiCallWriteDigit \/ SpiCallWritePunctuation
                 \/ SpiCallWriteDigits \/ SpiCallSetNum
SpecSpiCmd == SpiCmdInit /\ [][SpiCmdNext]_vars

(***************************************************************************)
(* Properties of the SPI adapter (checked under SpecSpi)                   *)
(***************************************************************************)
\* a send has returned: its trace and result are complete
SpiReturned == spiPc = "idle" /\ spiResult # NoResult

\* the pin calls of the trace, in order
GpioTrace == SelectSeq(spiTrace, LAMBDA r : r.act \in {"low", "high"})

\* C1: a send(s) that returns Ok has made exactly three calls: set_low,
\* then one bus write of the whole slice s with its bytes unchanged and in
\* order, then set_high; nothing else.
C1_SpiFraming ==
    (SpiReturned /\ spiResult = OkUnit) =>
        spiTrace = <<PinCall("low", 0), [act |-> "write", data |-> spiData, out |-> 0],
                     PinCall("high", 0)>>

C1_Witness ==
    /\ SpiReturned /\ spiResult = OkUnit
    /\ Len(spiData) = 2 /\ spiData[1] # spiData[2]

\* C2: when set_low succeeded and the bus write failed, set_high is still
\* called after the write and before send returns; the pin calls are low
\* then high; and if that set_high succeeded the result is the Interface
\* error carrying the Spim error of the write.
C2_CsRestoredAfterWriteError ==
    (SpiReturned /\ Len(spiTrace) >= 2 /\ spiTrace[2].out # 0) =>
        /\ Len(spiTrace) = 3
        /\ spiTrace[2].act = "write"
        /\ spiTrace[3].act = "high"
        /\ [i \in 1..Len(GpioTrace) |-> GpioTrace[i].act] = <<"low", "high">>
        /\ spiTrace[3].out = 0 =>
              spiResult = [tag |-> "Interface", sub |-> "Spim", e |-> spiTrace[2].out]

C2_Witness ==
    /\ SpiReturned /\ Len(spiTrace) = 3
    /\ spiTrace[2].out # 0 /\ spiTrace[3].out = 0
    /\ spiResult.sub = "Spim"

\* C3: when set_low succeeded and set_high failed, send returns the Gpio
\* error of that set_high, whether the write in between succeeded or
\* failed.
C3_DeassertErrorWins ==
    (SpiReturned /\ Len(spiTrace) = 3 /\ spiTrace[3].out # 0) =>
        spiResult = [tag |-> "Interface", sub |-> "Gpio", e |-> spiTrace[3].out]

C3_Witness ==
    /\ SpiReturned /\ Len(spiTrace) = 3
    /\ spiTrace[2].out # 0 /\ spiTrace[3].out # 0
    /\ spiTrace[2].out # spiTrace[3].out
    /\ spiResult.sub = "Gpio"

\* C4: when set_low fails, send returns the Gpio error of that call and
\* makes no bus write and no set_high call.
C4_AssertErrorStops ==
    (SpiReturned /\ spiTrace[1].out # 0) =>
        /\ spiTrace = <<PinCall("low", spiTrace[1].out)>>
        /\ spiResult = [tag |-> "Interface", sub |-> "Gpio", e |-> spiTrace[1].out]

C4_Witness ==
    /\ SpiReturned /\ Len(spiTrace) = 1
    /\ spiTrace[1].act = "low" /\ spiTrace[1].out # 0

\* C5 as stated: whenever no send is in progress, after construction and
\* after any sends whatever their outcomes, chip-select is high.
C5_CsHighBetweenOperations == spiPc = "idle" => csn = "high"

\* C5 as amended: whenever no send is in progress and the last send
\* returned Ok or a Spim (bus) error, chip-select is high.
C5_CsHighAfterCleanReturn ==
    (SpiReturned /\ (spiResult = OkUnit \/ spiResult.sub = "Spim")) => csn = "high"

C5_Witness ==
    /\ SpiReturned /\ spiResult.sub = "Spim" /\ csn = "high"

\* C6 as stated: after a send that asserted chip-select has returned, on
\* every exit path, chip-select is not low.
C6_CsNeverLeftAsserted ==
    (SpiReturned /\ spiTrace[1].out = 0) => csn # "low"

\* C6 as amended: a send that asserted chip-select calls set_high exactly
\* once, as its last call and after the write, on every exit path; on
\* return chip-select is low only if that set_high failed.
C6_DeassertAlwaysAttempted ==
    (SpiReturned /\ spiTrace[1].out = 0) =>
        /\ Len(spiTrace) = 3
        /\ spiTrace[3].act = "high"
        /\ Len(GpioTrace) = 2
        /\ csn = "low" => spiTrace[3].out # 0

C6_Witness ==
    /\ SpiReturned /\ Len(spiTrace) = 3
    /\ spiTrace[2].out # 0 /\ spiTrace[3].out # 0 /\ csn = "low"

(***************************************************************************)
(* Properties of the command layer                                         *)
(***************************************************************************)
\* the byte sequences of the transfers recorded so far, in order
StreamData == [i \in 1..Len(stream) |-> stream[i].data]

\* C7 (under SpecNum): set_num(n) with n <= 9999 on a transport that does
\* not fail returns Ok and emits exactly two transfers, [0x79, 0x00] and
\* then [n/1000, (n/100)%10, (n/10)%10, n%10], every byte in 0..9; with
\* n > 9999 it emits nothing and returns DigitOutOfRange.
C7_SetNumEncoding ==
    (calls # <<>>) =>
        LET n == calls[1].arg
        IN  IF n <= 9999
            THEN /\ calls[1].res = [tag |-> "Ok", sub |-> "", e |-> 0]
                 /\ StreamData = << <<121, 0>>,
                                    <<n \div 1000, (n \div 100) % 10,
                                      (n \div 10) % 10, n % 10>> >>
                 /\ \A i \in 1..4 : StreamData[2][i] \in 0..9
            ELSE /\ calls[1].res = [tag |-> "DigitOutOfRange", sub |-> "", e |-> 0]
                 /\ stream = <<>>

C7_Witness ==
    /\ calls # <<>> /\ calls[1].op = "set_num" /\ calls[1].arg = 42
    /\ StreamData = << <<121, 0>>, <<0, 0, 4, 2>> >>

\* C8 (under SpecDigits): write_digits(s) with |s| > 4 returns
\* CursorOutOfRange, also when an element exceeds 15; otherwise with any
\* element > 15 it returns DigitOutOfRange; in both cases nothing is sent.
\* With |s| <= 4 and all elements <= 15 it sends s unchanged as one
\* transfer.
C8_WriteDigitsValidation ==
    (calls # <<>>) =>
        LET s == calls[1].arg
        IN  IF Len(s) > 4
            THEN /\ calls[1].res = [tag |-> "CursorOutOfRange", sub |-> "", e |-> 0]
                 /\ stream = <<>>
            ELSE IF \E i \in 1..Len(s) : s[i] > 15
            THEN /\ calls[1].res = [tag |-> "DigitOutOfRange", sub |-> "", e |-> 0]
                 /\ stream = <<>>
            ELSE /\ calls[1].res = [tag |-> "Ok", sub |-> "", e |-> 0]
                 /\ StreamData = <<s>>

C8_Witness ==
    /\ calls # <<>> /\ calls[1].op = "write_digits"
    /\ Len(calls[1].arg) = 5 /\ calls[1].arg[5] = 16 /\ calls[1].arg[1] = 0
    /\ calls[1].res.tag = "CursorOutOfRange" /\ stream = <<>>

\* the transfers one call must add to the stream, and its result
ExpectedOf(c) ==
    CASE c.op = "clear" ->
           [data |-> << <<118>> >>, tag |-> "Ok"]
      [] c.op = "set_cursor" ->
           IF c.arg <= 3 THEN [data |-> << <<121, c.arg>> >>, tag |-> "Ok"]
           ELSE [data |-> <<>>, tag |-> "CursorOutOfRange"]
      [] c.op = "set_brightness" ->
           [data |-> << <<122, c.arg>> >>, tag |-> "Ok"]
      [] c.op = "write_digit" ->
           IF c.arg <= 15 THEN [data |-> << <<c.arg>> >>, tag |-> "Ok"]
           ELSE [data |-> <<>>, tag |-> "DigitOutOfRange"]
      [] c.op = "write_punctuation" ->
           [data |-> << <<119, c.arg.bits>> >>, tag |-> "Ok"]

RECURSIVE ExpectedStream(_)
ExpectedStream(cs) ==
    IF cs = <<>> THEN <<>>
    ELSE ExpectedOf(Head(cs)).data \o ExpectedStream(Tail(cs))

\* C9 (under SpecCmd): after any sequence of clear, set_cursor,
\* set_brightness, write_digit and write_punctuation calls on a transport
\* that does not fail, the recorded stream is, in call order, one transfer
\* per accepted call and none per rejected call: [0x76], [0x79, c] for
\* c <= 3, [0x7A, l] for every l, [d] for d <= 15, [0x77, bits]; and
\* set_cursor(c >= 4) returned CursorOutOfRange, write_digit(d >= 16)
\* DigitOutOfRange, every other call Ok.
C9_CommandStream ==
    /\ StreamData = ExpectedStream(calls)
    /\ \A i \in 1..Len(calls) : calls[i].res.tag = ExpectedOf(calls[i]).tag

C9_Witness ==
    /\ Len(calls) = 3
    /\ calls[1].op = "set_cursor" /\ calls[1].arg = 2
    /\ calls[2].op = "write_digit" /\ calls[2].arg = 255
    /\ calls[2].res.tag = "DigitOutOfRange"
    /\ calls[3].op = "clear"
    /\ StreamData = << <<121, 2>>, <<118>> >>

(***************************************************************************)
(* Properties of the I2C adapter (checked under SpecI2c)                   *)
(***************************************************************************)
\* The addressed writes that a history of operations must produce when the
\* adapter starts with stored address a: each send one write <<address in
\* force, payload>>, each set_address none but a new address in force.
RECURSIVE AddressedWrites(_, _)
AddressedWrites(a, h) ==
    IF h = <<>> THEN <<>>
    ELSE IF Head(h).op = "send"
         THEN <<[addr |-> a, data |-> Head(h).arg]>> \o AddressedWrites(a, Tail(h))
         ELSE AddressedWrites(Head(h).arg[1], Tail(h))

\* C10: the bus has received exactly one addressed write per send, in
\* order, each to the address stored when it was sent (0x71 if the adapter
\* was constructed with None and no set_address came before, else the
\* constructor's or the latest set_address's) and carrying the bytes of
\* that send; set_address adds no write and alters no earlier one.
C10_I2cFraming ==
    [i \in 1..Len(i2cLog) |-> [addr |-> i2cLog[i].addr, data |-> i2cLog[i].data]]
        = AddressedWrites(IF ctorAddr = <<>> THEN 113 ELSE ctorAddr[1], i2cHist)

C10_Witness ==
    /\ ctorAddr = <<>>
    /\ i2cHist = <<[op |-> "send", arg |-> <<118>>],
                   [op |-> "set_address", arg |-> <<80>>],
                   [op |-> "send", arg |-> <<118>>]>>
    /\ Len(i2cLog) = 2 /\ i2cLog[1].addr = 113 /\ i2cLog[2].addr = 80

(***************************************************************************)
(* Properties of the command layer on a transport that may fail            *)
(* (checked under SpecAny unless said otherwise)                           *)
(***************************************************************************)
\* C11 as stated: every slice the command layer hands to send, for every
\* operation and argument, has length >= 1.
C11_NoEmptySlice ==
    \A i \in 1..Len(stream) : Len(stream[i].data) >= 1

\* the bytes of all recorded transfers, in the order the device receives them
RECURSIVE Flatten(_)
Flatten(ts) == IF ts = <<>> THEN <<>> ELSE Head(ts) \o Flatten(Tail(ts))

\* The device assumed by C12: CURSOR_CTL followed by col puts the cursor at
\* col; a digit byte 0..15 advances the cursor by one, from column 3 back
\* to 0; this function gives the cursor after the bytes bs, starting at c.
RECURSIVE DeviceCursor(_, _)
DeviceCursor(c, bs) ==
    IF bs = <<>> THEN c
    ELSE IF Head(bs) = 121 /\ Len(bs) >= 2
         THEN DeviceCursor(bs[2], SubSeq(bs, 3, Len(bs)))
    ELSE IF Head(bs) <= 15
         THEN DeviceCursor((c + 1) % 4, Tail(bs))
    ELSE DeviceCursor(c, Tail(bs))

\* C12 (under SpecNum): after a set_num(n), n <= 9999, that returned Ok,
\* a device that started with its cursor at any column 0..3 and received
\* the recorded transfers has its cursor at column 0.
C12_CursorHomeAfterSetNum ==
    (calls # <<>> /\ calls[1].arg <= 9999 /\ calls[1].res.tag = "Ok") =>
        \A c0 \in 0..3 : DeviceCursor(c0, Flatten(StreamData)) = 0

C12_Witness ==
    /\ calls # <<>> /\ calls[1].op = "set_num" /\ calls[1].arg = 9999
    /\ calls[1].res.tag = "Ok" /\ Len(Flatten(StreamData)) = 6
    /\ DeviceCursor(2, Flatten(StreamData)) = 0

\* C13 (under SpecFlags): for every PunctuationFlags value built from the
\* six members by union, intersection, complement and empty(), the mask
\* byte that write_punctuation transmits has bits 6 and 7 clear.
C13_ReservedBitsZero ==
    \A i \in 1..Len(stream) :
        /\ Len(stream[i].data) = 2
        /\ stream[i].data[1] = 119
        /\ stream[i].data[2] \div 64 = 0

\* the complement of DOTS_COLON has been written: 0x2F
C13_Witness ==
    /\ calls # <<>> /\ calls[1].op = "write_punctuation"
    /\ calls[1].arg.bits = 47
    /\ StreamData = << <<119, 47>> >>

(***************************************************************************)
(* More properties of the I2C adapter (checked under SpecI2c)              *)
(***************************************************************************)
\* the step just taken was a call of set_address
SetAddressStep ==
    /\ Len(i2cHist') = Len(i2cHist) + 1
    /\ i2cHist'[Len(i2cHist')].op = "set_address"

\* C14: a call set_address(a) makes the stored address a and changes
\* nothing else: the bus receives no write, no result (so no error) is
\* produced, and what the bus has received so far stays as it is.
C14_SetAddressFrame ==
    [][SetAddressStep =>
          /\ addr' = i2cHist'[Len(i2cHist')].arg[1]
          /\ i2cLog' = i2cLog
          /\ i2cResult' = i2cResult
          /\ ctorAddr' = ctorAddr]_vars

C14_Witness ==
    /\ Len(i2cHist) = 2
    /\ i2cHist[1].op = "send" /\ i2cHist[2].op = "set_address"
    /\ i2cHist[2].arg = <<80>> /\ addr = 80
    /\ Len(i2cLog) = 1 /\ i2cLog[1].addr = 113

\* C15 (under SpecNumFail): set_num(n) with n <= 9999 first sends
\* [0x79, 0]; if that send fails, nothing more is sent and its error is
\* returned; if it succeeds, the four digits are sent once and the result
\* of that send, Ok or its error, is returned; nothing is sent after a
\* failure, and send is called at most twice.
C15_SetNumNoCompensation ==
    (calls # <<>> /\ calls[1].arg <= 9999) =>
        LET n == calls[1].arg
        IN  /\ Len(stream) \in {1, 2}
            /\ stream[1].data = <<121, 0>>
            /\ IF stream[1].out # 0
               THEN /\ Len(stream) = 1
                    /\ calls[1].res = [tag |-> "Interface", sub |-> "Bus",
                                       e |-> stream[1].out]
               ELSE /\ Len(stream) = 2
                    /\ stream[2].data = <<n \div 1000, (n \div 100) % 10,
                                          (n \div 10) % 10, n % 10>>
                    /\ calls[1].res =
                          IF stream[2].out = 0
                          THEN [tag |-> "Ok", sub |-> "", e |-> 0]
                          ELSE [tag |-> "Interface", sub |-> "Bus",
                                e |-> stream[2].out]

\* the cursor-set went through and the digit transfer failed
C15_Witness ==
    /\ calls # <<>> /\ calls[1].op = "set_num" /\ calls[1].arg = 42
    /\ Len(stream) = 2 /\ stream[1].out = 0 /\ stream[2].out # 0
    /\ calls[1].res.tag = "Interface"

\* the transfers handed to send during call i
SentBy(i) ==
    SubSeq(stream, calls[i].at + 1,
           IF i = Len(calls) THEN Len(stream) ELSE calls[i + 1].at)

\* the arguments of call c pass the operation's validation
PassesValidation(c) ==
    CASE c.op = "set_cursor"   -> c.arg <= 3
      [] c.op = "write_digit"  -> c.arg <= 15
      [] c.op = "write_digits" -> Len(c.arg) <= 4 /\ \A k \in 1..Len(c.arg) : c.arg[k] <= 15
      [] c.op = "set_num"      -> c.arg <= 9999
      [] OTHER                 -> TRUE

\* C16: every call of clear, set_cursor, set_brightness, write_digit,
\* write_punctuation or write_digits whose arguments pass validation has
\* called send exactly once, also when that send failed, and has returned
\* what send returned: Ok, or the transport error with the same value.
C16_NoRetryNoSwallow ==
    \A i \in 1..Len(calls) :
        (calls[i].op # "set_num" /\ PassesValidation(calls[i])) =>
            /\ Len(SentBy(i)) = 1
            /\ calls[i].res =
                  IF SentBy(i)[1].out = 0
                  THEN [tag |-> "Ok", sub |-> "", e |-> 0]
                  ELSE [tag |-> "Interface", sub |-> "Bus", e |-> SentBy(i)[1].out]

\* a failed call is followed by a successful one; one transfer each
C16_Witness ==
    /\ Len(calls) = 2 /\ Len(stream) = 2
    /\ calls[1].op = "write_digits" /\ calls[1].arg = <<0, 0>>
    /\ calls[1].res.tag = "Interface" /\ stream[1].out # 0
    /\ calls[2].op = "set_brightness" /\ calls[2].res.tag = "Ok"

(***************************************************************************)
(* The command layer on the SPI adapter (checked under SpecSpiCmd)         *)
(***************************************************************************)
\* the slices call c sets out to send, from its operation and arguments alone
Frames(c) ==
    IF ~PassesValidation(c) THEN <<>>
    ELSE CASE c.op = "clear"             -> << <<118>> >>
           [] c.op = "set_cursor"        -> << <<121, c.arg>> >>
           [] c.op = "set_brightness"    -> << <<122, c.arg>> >>
           [] c.op = "write_digit"       -> << <<c.arg>> >>
           [] c.op = "write_punctuation" -> << <<119, c.arg.bits>> >>
           [] c.op = "write_digits"      -> << c.arg >>
           [] c.op = "set_num"           ->
                << <<121, 0>>,
                   <<c.arg \div 1000, (c.arg \div 100) % 10,
                     (c.arg \div 10) % 10, c.arg % 10>> >>

\* tr is what sending the slices fs, in order, attempts given the
\* outcomes recorded in tr itself: per slice set_low; if that failed,
\* stop; else write(slice), set_high; if either failed, stop.
RECURSIVE Follows(_, _)
Follows(fs, tr) ==
    IF fs = <<>> THEN tr = <<>>
    ELSE /\ tr # <<>>
         /\ tr[1].act = "low"
         /\ IF tr[1].out # 0 THEN Len(tr) = 1
            ELSE /\ Len(tr) >= 3
                 /\ tr[2].act = "write" /\ tr[2].data = Head(fs)
                 /\ tr[3].act = "high"
                 /\ IF tr[2].out # 0 \/ tr[3].out # 0 THEN Len(tr) = 3
                    ELSE Follows(Tail(fs), SubSeq(tr, 4, Len(tr)))

\* C17: whatever calls were made before and however they ended, and
\* whatever level they left chip-select at, the pin and bus calls that the
\* latest command-layer call attempted, and the slices it handed to send,
\* are the ones fixed by its own operation and arguments and the outcomes
\* of the pin and bus calls within it.
C17_Stateless ==
    (calls # <<>>) =>
        LET c     == calls[Len(calls)]
            sends == Len(SelectSeq(spiTrace, LAMBDA r : r.act = "low"))
            sent  == SentBy(Len(calls))
        IN  /\ Follows(Frames(c), spiTrace)
            /\ [k \in 1..Len(sent) |-> sent[k].data] = SubSeq(Frames(c), 1, sends)

\* the first call failed on the pin and left chip-select low; the same
\* operation then ran again and made the full sequence of calls
C17_Witness ==
    /\ Len(calls) = 2
    /\ calls[1].op = "clear" /\ calls[1].res.sub = "Gpio"
    /\ calls[2].op = "clear" /\ calls[2].res.tag = "Ok"
    /\ Len(spiTrace) = 3 /\ spiTrace[2].data = <<118>>

====
